---- MODULE Spec2Model ----
(***************************************************************************)
(* ColorInsight wizard: the two App components (the search variant with a  *)
(* market-search stage and a preview image, and the simulated variant      *)
(* with a timed "search" and a file-size check), their handlers, and the   *)
(* scoring / ranking step of generateAndScoreSchemes.                      *)
(*                                                                         *)
(* React state hooks are the variables.  Every handler runs to its next    *)
(* await in one step; the awaited call is recorded in `call` (main flow),  *)
(* `imageCalls` (preview image) or `downloadCall` (export) and completes   *)
(* in a later step with an outcome chosen by the environment.              *)
(*                                                                         *)
(* JavaScript null is the record Null; nullable strings are wrapped in a   *)
(* record so that they stay comparable with Null.  Strings that the code   *)
(* compares or parses character by character (the result of toFixed) are   *)
(* sequences of one-character strings.                                     *)
(***************************************************************************)
EXTENDS Integers, Sequences, FiniteSets, Bags, TLC

VARIABLES
    variant,            \* which App component runs: "search" or "simulated"
    state,              \* AppState
    file,               \* simulated variant only
    customerName,
    requirements,
    searchResult,       \* search variant only
    schemes,
    bestScheme,
    loadingMsg,
    error,
    generatedImage,     \* search variant only
    isGeneratingImage,  \* search variant only
    isDownloading,      \* search variant only
    call,               \* the main-flow async step awaiting completion
    imageCalls,         \* bag of preview-image requests in flight
    downloadCall,       \* an html2canvas export is awaiting completion
    lastOp,             \* history: the handler or completion that ran last
    viaReUpload,        \* history: Re-upload was used and no analysis has
                        \* succeeded since
    sub,                \* scoring harness: the sub-scores given to the scorer
    extra,              \* scoring harness: the other fields of that scheme
    ws,                 \* scoring harness: the weightedScore it attached
    chunks,             \* search harness: the response's groundingChunks
    found,              \* search harness: the SearchResult returned for them
    docName,            \* export harness: the customer name, as characters
    savedAs,            \* export harness: the file name given to save()
    sheet,              \* tiling harness: bitmap height and page height
    pages               \* tiling harness: the offsets of the pages added

vars == <<variant, state, file, customerName, requirements, searchResult,
          schemes, bestScheme, loadingMsg, error, generatedImage,
          isGeneratingImage, isDownloading, call, imageCalls, downloadCall,
          lastOp, viaReUpload, sub, extra, ws, chunks, found, docName, savedAs, sheet, pages>>

wizardVars == <<variant, state, file, customerName, requirements,
                searchResult, schemes, bestScheme, loadingMsg, error,
                generatedImage, isGeneratingImage, isDownloading, call,
                imageCalls, downloadCall, lastOp, viaReUpload>>

(***************************************************************************)
(* Bounds and program constants                                            *)
(***************************************************************************)
\* longest batch the scheme generator returns when ranking is examined
MaxBatch == 4
\* longest batch the scheme generator returns during a wizard session
MaxSessionBatch == 2
\* longest requirement list the extractor returns in the model
MaxReqs == 1
\* preview-image requests that may be in flight together in the model
MaxImageCalls == 2
MaxChunks == 6
MaxNameLen == 4
MaxBitmapHeight == 12
MaxPageHeight == 5
\* sub-scores are on a 0-10 scale
MaxSubScore == 10
\* 20 * 1024 * 1024
MaxFileSize == 20971520

Null == [null |-> TRUE]

\* a nullable string that is not null
Str(s) == [value |-> s]

AppStates == {"LANDING", "UPLOAD", "ANALYZING_DOC", "CONFIRM_REQUIREMENTS",
              "SEARCHING", "VIEW_SEARCH_RESULTS", "COMPARING", "RESULT"}

(***************************************************************************)
(* Scoring: generateAndScoreSchemes                                        *)
(***************************************************************************)
Digits == <<"0", "1", "2", "3", "4", "5", "6", "7", "8", "9">>

Digit(d) == Digits[d + 1]

\* UTF-16 code unit of the characters a toFixed(2) result is made of
CharCode(c) ==
    IF c = "." THEN 46
    ELSE 47 + (CHOOSE i \in 1..10 : Digits[i] = c)

RECURSIVE IntToChars(_)
IntToChars(n) ==
    IF n < 10 THEN <<Digit(n)>>
    ELSE IntToChars(n \div 10) \o <<Digit(n % 10)>>

\* Number.prototype.toFixed(2) of a non-negative number given in hundredths
toFixed2(h) ==
    IntToChars(h \div 100) \o <<".">> \o <<Digit((h % 100) \div 10), Digit(h % 10)>>

\* variant with the weights of innovation and harmony exchanged
WeightedSumSwappedTail(s) ==
    (s.match * 30) + (s.trend * 25) + (s.market * 20) +
    (s.innovation * 10) + (s.harmony * 15)

\* variant with the weights of match and trend exchanged
WeightedSumSwappedHead(s) ==
    (s.match * 25) + (s.trend * 30) + (s.market * 20) +
    (s.innovation * 15) + (s.harmony * 10)

\* match*0.30 + trend*0.25 + market*0.20 + innovation*0.15 + harmony*0.10,
\* in hundredths.  For integer sub-scores the exact sum is a multiple of
\* 0.05 and the double-precision sum differs from it by far less than
\* 0.005, so toFixed(2) prints the exact value.
WeightedSum(s) ==
    (s.match * 30) + (s.trend * 25) + (s.market * 20) +
    (s.innovation * 15) + (s.harmony * 10)

weightedScore(s) == toFixed2(WeightedSum(s))

\* variant that spreads the scheme after the computed score:
\* ({ weightedScore: ..., ...s })
attachScoreSpreadLast(s) ==
    [f \in DOMAIN s \cup {"weightedScore"} |->
        IF f \in DOMAIN s THEN s[f] ELSE weightedScore(s.scores)]

\* the map callback ({ ...s, weightedScore: ... }): every field of the
\* response scheme is copied, then weightedScore is set
attachScore(s) ==
    [f \in DOMAIN s \cup {"weightedScore"} |->
        IF f = "weightedScore" THEN weightedScore(s.scores) ELSE s[f]]

\* schemes.map(s => ({...s, weightedScore: ...}))
generateAndScoreSchemes(response) ==
    [i \in 1..Len(response) |-> attachScore(response[i])]

\* a scheme of the generator's response: the sub-scores and its other fields
ResponseScheme(scores, other) ==
    [f \in DOMAIN other \cup {"scores"} |->
        IF f = "scores" THEN scores ELSE other[f]]

\* the response for a batch of sub-score records; the generator's ids are
\* taken to be the positions in the batch
Response(raw) == [i \in 1..Len(raw) |-> ResponseScheme(raw[i], [id |-> i])]

(***************************************************************************)
(* Ranking: the reduce in handleGenerateSchemes / handleStartSearch        *)
(***************************************************************************)
RECURSIVE ParseDigits(_)
ParseDigits(cs) ==
    IF cs = <<>> THEN 0
    ELSE ParseDigits(SubSeq(cs, 1, Len(cs) - 1)) * 10 + (CharCode(cs[Len(cs)]) - 48)

\* Number(str) of a decimal string with two fractional digits, in hundredths
Number(cs) ==
    LET dot == CHOOSE i \in 1..Len(cs) : cs[i] = "."
    IN ParseDigits(SubSeq(cs, 1, dot - 1)) * 100 + ParseDigits(SubSeq(cs, dot + 1, Len(cs)))

\* a > b on two JavaScript strings: lexicographic by code unit
RECURSIVE StringGreater(_, _)
StringGreater(a, b) ==
    IF a = <<>> THEN FALSE
    ELSE IF b = <<>> THEN TRUE
    ELSE IF CharCode(Head(a)) > CharCode(Head(b)) THEN TRUE
    ELSE IF CharCode(Head(a)) < CharCode(Head(b)) THEN FALSE
    ELSE StringGreater(Tail(a), Tail(b))

\* the reducer callback of the search variant
PickSearch(prev, current) ==
    IF Number(prev.weightedScore) > Number(current.weightedScore) THEN prev ELSE current

\* the reducer callback of the simulated variant: weightedScore is the
\* string toFixed returned, and > compares strings
PickSimulated(prev, current) ==
    IF StringGreater(prev.weightedScore, current.weightedScore) THEN prev ELSE current

\* Array.prototype.reduce without an initial value, on a non-empty array
RECURSIVE ReduceFrom(_, _, _, _)
ReduceFrom(v, batch, i, prev) ==
    IF i > Len(batch) THEN prev
    ELSE ReduceFrom(v, batch, i + 1,
                    IF v = "search" THEN PickSearch(prev, batch[i])
                    ELSE PickSimulated(prev, batch[i]))

best(v, batch) == ReduceFrom(v, batch, 2, batch[1])

(***************************************************************************)
(* Inputs the environment supplies                                         *)
(***************************************************************************)
\* files the user may select: MIME type and size in bytes
Files ==
    { [type |-> t, size |-> z] :
        t \in {"application/pdf", "text/plain"},
        z \in {1024, MaxFileSize, MaxFileSize + 1} }

\* customerName values in the extractor's JSON
Names == {"", "Acme"}

\* requirement lists in the extractor's JSON
ReqLists == { [i \in 1..n |-> [id |-> i]] : n \in 0..MaxReqs }

\* sub-score records the generator may attach to a scheme:
\* composites 10.00, 9.50, 8.50, 7.00, 6.00
ScorePool ==
    { [match |-> 10, trend |-> 10, market |-> 10, innovation |-> 10, harmony |-> 10],
      [match |-> 10, trend |-> 10, market |-> 10, innovation |-> 8, harmony |-> 8],
      [match |-> 9, trend |-> 8, market |-> 9, innovation |-> 8, harmony |-> 8],
      [match |-> 8, trend |-> 7, market |-> 6, innovation |-> 5, harmony |-> 9],
      [match |-> 6, trend |-> 6, market |-> 6, innovation |-> 6, harmony |-> 6] }

\* parsed responses of the scheme generator: arrays of 0..MaxBatch schemes
RawBatches == UNION { [1..n -> ScorePool] : n \in 0..MaxBatch }

\* the responses drawn during a wizard session: composites 10.00 and 8.50,
\* in turn, starting with either
SessionPool ==
    { [match |-> 10, trend |-> 10, market |-> 10, innovation |-> 10, harmony |-> 10],
      [match |-> 9, trend |-> 8, market |-> 9, innovation |-> 8, harmony |-> 8] }

\* the batch of n schemes that alternates between the records x and y
SessionBatch(n, x, y) == [i \in 1..n |-> IF i % 2 = 1 THEN x ELSE y]

SessionBatches ==
    {SessionBatch(n, p[1], p[2]) :
        n \in 0..MaxSessionBatch,
        p \in {q \in SessionPool \X SessionPool : q[1] # q[2]}}

\* err.message of a rejected call
ExtractTextErrors == {"Failed to parse PDF file. Please ensure it is a valid PDF."}
ExtractReqErrors(v) ==
    {"", IF v = "search" THEN "AI response empty" ELSE "No response from AI"}
SearchErrors == {"", "Search failed: No response text received from AI."}
GenerateErrors(v) ==
    {"", IF v = "search" THEN "Scheme generation failed" ELSE "Failed to generate schemes"}
ReduceError == "Reduce of empty array with no initial value"

NoCall == [kind |-> "none"]

(***************************************************************************)
(* App: initial state                                                      *)
(***************************************************************************)
WizardInit ==
    /\ variant \in {"search", "simulated"}
    /\ state = IF variant = "search" THEN "LANDING" ELSE "UPLOAD"
    /\ file = Null
    /\ customerName = ""
    /\ requirements = <<>>
    /\ searchResult = Null
    /\ schemes = <<>>
    /\ bestScheme = Null
    /\ loadingMsg = ""
    /\ error = Null
    /\ generatedImage = Null
    /\ isGeneratingImage = FALSE
    /\ isDownloading = FALSE
    /\ call = NoCall
    /\ imageCalls = EmptyBag
    /\ downloadCall = FALSE
    /\ lastOp = "init"
    /\ viaReUpload = FALSE

NoScore == <<>>

Init ==
    /\ WizardInit
    /\ sub = Null
    /\ extra = Null
    /\ ws = NoScore
    /\ chunks = <<>>
    /\ found = Null
    /\ docName = <<>>
    /\ savedAs = Null
    /\ sheet = Null
    /\ pages = Null

(***************************************************************************)
(* Landing -> Upload (search variant)                                      *)
(***************************************************************************)
renderLanding ==
    /\ variant = "search"
    /\ state = "LANDING"
    /\ state' = "UPLOAD"
    /\ lastOp' = "enter"
    /\ UNCHANGED <<variant, file, customerName, requirements, searchResult,
                   schemes, bestScheme, loadingMsg, error, generatedImage,
                   isGeneratingImage, isDownloading, call, imageCalls,
                   downloadCall, viaReUpload, sub, extra, ws, chunks, found, docName, savedAs, sheet, pages>>

(***************************************************************************)
(* handleFileUpload, up to the first await of processFile                  *)
(***************************************************************************)
\* variant without the MIME type check
uploadRejectionSizeOnly(v, f) ==
    IF v = "simulated" /\ f.size > MaxFileSize THEN Str("File size exceeds 20MB.")
    ELSE Null

\* variant whose size check turns away a file of exactly 20 MB
uploadRejectionAtLimit(v, f) ==
    IF f.type # "application/pdf" THEN Str("Please upload a PDF file.")
    ELSE IF v = "simulated" /\ f.size >= MaxFileSize THEN Str("File size exceeds 20MB.")
    ELSE Null

\* does handleFileUpload turn the file away, and with which message
uploadRejection(v, f) ==
    IF f.type # "application/pdf" THEN Str("Please upload a PDF file.")
    ELSE IF v = "simulated" /\ f.size > MaxFileSize THEN Str("File size exceeds 20MB.")
    ELSE Null

\* what the user selected, for lastOp
fileKind(f) ==
    IF f.type # "application/pdf" THEN "upload:notPdf"
    ELSE IF f.size > MaxFileSize THEN "upload:largePdf"
    ELSE "upload:pdf"

handleFileUpload(f) ==
    /\ state = "UPLOAD"
    /\ IF uploadRejection(variant, f) # Null
       THEN /\ error' = uploadRejection(variant, f)
            /\ UNCHANGED <<state, file, loadingMsg, call>>
       ELSE /\ file' = IF variant = "simulated" THEN f ELSE file
            /\ error' = Null
            /\ state' = "ANALYZING_DOC"
            /\ loadingMsg' = IF variant = "search" THEN "Parsing PDF Content..."
                             ELSE "Extracting text from PDF..."
            /\ call' = [kind |-> "extractTextFromPDF", file |-> f]
    /\ lastOp' = fileKind(f)
    /\ UNCHANGED <<variant, customerName, requirements, searchResult, schemes,
                   bestScheme, generatedImage, isGeneratingImage,
                   isDownloading, imageCalls, downloadCall, viaReUpload, sub, extra, ws, chunks, found, docName, savedAs, sheet, pages>>

(***************************************************************************)
(* processFile                                                             *)
(***************************************************************************)
\* the message the catch block of processFile stores
processFileError(v, msg) ==
    IF v = "search"
    THEN Str("Analysis Failed: " \o (IF msg # "" THEN msg ELSE "Unknown error"))
    ELSE Str(IF msg # "" THEN msg ELSE "Failed to process file")

\* variant of the catch block that also drops the requirement list
processFileCatchClearsRequirements(msg) ==
    /\ error' = processFileError(variant, msg)
    /\ state' = "UPLOAD"
    /\ call' = NoCall
    /\ lastOp' = "processFile:failed"
    /\ requirements' = <<>>
    /\ UNCHANGED <<customerName, loadingMsg>>

processFileCatch(msg) ==
    /\ error' = processFileError(variant, msg)
    /\ state' = "UPLOAD"
    /\ call' = NoCall
    /\ lastOp' = "processFile:failed"
    /\ UNCHANGED <<customerName, requirements, loadingMsg>>

\* variant that stores a provisional customer name once the text is read
extractTextDoneWritesName ==
    /\ call.kind = "extractTextFromPDF"
    /\ \/ /\ loadingMsg' = IF variant = "search" THEN "AI Analyzing Requirements..."
                           ELSE "Identifying color requirements with Gemini AI..."
          /\ call' = [kind |-> "extractRequirements"]
          /\ lastOp' = "processFile:text"
          /\ customerName' = IF variant = "search" THEN "Client" ELSE "Unknown Client"
          /\ UNCHANGED <<state, error, requirements>>
       \/ \E msg \in ExtractTextErrors : processFileCatch(msg)
    /\ UNCHANGED <<variant, file, searchResult, schemes, bestScheme,
                   generatedImage, isGeneratingImage, isDownloading,
                   imageCalls, downloadCall, viaReUpload, sub, extra, ws, chunks, found,
                   docName, savedAs, sheet, pages>>

\* extractTextFromPDF settles
extractTextDone ==
    /\ call.kind = "extractTextFromPDF"
    /\ \/ /\ loadingMsg' = IF variant = "search" THEN "AI Analyzing Requirements..."
                           ELSE "Identifying color requirements with Gemini AI..."
          /\ call' = [kind |-> "extractRequirements"]
          /\ lastOp' = "processFile:text"
          /\ UNCHANGED <<state, error, customerName, requirements>>
       \/ \E msg \in ExtractTextErrors : processFileCatch(msg)
    /\ UNCHANGED <<variant, file, searchResult, schemes, bestScheme,
                   generatedImage, isGeneratingImage, isDownloading,
                   imageCalls, downloadCall, viaReUpload, sub, extra, ws, chunks, found, docName, savedAs, sheet, pages>>

\* variant whose success path stores the extracted data but leaves the view
\* on the loader
extractRequirementsDoneKeepsLoader ==
    /\ call.kind = "extractRequirements"
    /\ \/ \E name \in Names, reqs \in ReqLists :
            /\ customerName' = IF name # "" THEN name
                               ELSE IF variant = "search" THEN "Client"
                               ELSE "Unknown Client"
            /\ requirements' = reqs
            /\ call' = NoCall
            /\ lastOp' = "processFile:ok"
            /\ viaReUpload' = FALSE
            /\ UNCHANGED <<state, error, loadingMsg>>
       \/ /\ \E msg \in ExtractReqErrors(variant) : processFileCatch(msg)
          /\ UNCHANGED viaReUpload
    /\ UNCHANGED <<variant, file, searchResult, schemes, bestScheme,
                   generatedImage, isGeneratingImage, isDownloading,
                   imageCalls, downloadCall, sub, extra, ws, chunks, found, docName, savedAs, sheet, pages>>

\* extractRequirements settles
extractRequirementsDone ==
    /\ call.kind = "extractRequirements"
    /\ \/ \E name \in Names, reqs \in ReqLists :
            /\ customerName' = IF name # "" THEN name
                               ELSE IF variant = "search" THEN "Client"
                               ELSE "Unknown Client"
            /\ requirements' = reqs
            /\ state' = "CONFIRM_REQUIREMENTS"
            /\ call' = NoCall
            /\ lastOp' = "processFile:ok"
            /\ viaReUpload' = FALSE
            /\ UNCHANGED <<error, loadingMsg>>
       \/ /\ \E msg \in ExtractReqErrors(variant) : processFileCatch(msg)
          /\ UNCHANGED viaReUpload
    /\ UNCHANGED <<variant, file, searchResult, schemes, bestScheme,
                   generatedImage, isGeneratingImage, isDownloading,
                   imageCalls, downloadCall, sub, extra, ws, chunks, found, docName, savedAs, sheet, pages>>

(***************************************************************************)
(* Re-upload link of renderRequirements (simulated variant)                *)
(***************************************************************************)
reUpload ==
    /\ variant = "simulated"
    /\ state = "CONFIRM_REQUIREMENTS"
    /\ state' = "UPLOAD"
    /\ lastOp' = "reUpload"
    /\ viaReUpload' = TRUE
    /\ UNCHANGED <<variant, file, customerName, requirements, searchResult,
                   schemes, bestScheme, loadingMsg, error, generatedImage,
                   isGeneratingImage, isDownloading, call, imageCalls,
                   downloadCall, sub, extra, ws, chunks, found, docName, savedAs, sheet, pages>>

(***************************************************************************)
(* handleStartSearch (search variant): the market search                   *)
(***************************************************************************)
handleStartSearchSearch ==
    /\ variant = "search"
    /\ state = "CONFIRM_REQUIREMENTS"
    /\ error' = Null
    /\ state' = "SEARCHING"
    /\ loadingMsg' = "Connecting to Global Knowledge Base (Google Search)..."
    /\ call' = [kind |-> "performMarketSearch", requirements |-> requirements]
    /\ lastOp' = "search:start"
    /\ UNCHANGED <<variant, file, customerName, requirements, searchResult,
                   schemes, bestScheme, generatedImage, isGeneratingImage,
                   isDownloading, imageCalls, downloadCall, viaReUpload, sub, extra, ws, chunks, found, docName, savedAs, sheet, pages>>

(***************************************************************************)
(* performMarketSearch: the sources of a SearchResult.  A grounding chunk  *)
(* is [uri, title]; "" stands for a uri or title that is missing or empty  *)
(* (both are falsy in the test chunk.web?.uri && chunk.web?.title).        *)
(***************************************************************************)
SourceCap == 5

Chunk(u, t) == [uri |-> u, title |-> t]

\* if (chunk.web?.uri && chunk.web?.title)
hasWeb(chunk) == chunk.uri # "" /\ chunk.title # ""

RECURSIVE webSources(_)
\* chunks.forEach(... sources.push({ title, url }))
webSources(cs) ==
    IF cs = <<>> THEN <<>>
    ELSE LET rest == webSources(Tail(cs))
         IN  IF hasWeb(Head(cs))
             THEN <<[title |-> Head(cs).title, url |-> Head(cs).uri]>> \o rest
             ELSE rest

\* variant that finds the last element with the url
findLastIndex(a, url) ==
    CHOOSE i \in 1..Len(a) :
        a[i].url = url /\ \A j \in (i+1)..Len(a) : a[j].url # url

\* a.findIndex(v2 => v2.url === url), for a url that occurs in a
findIndex(a, url) ==
    CHOOSE i \in 1..Len(a) :
        a[i].url = url /\ \A j \in 1..(i-1) : a[j].url # url

RECURSIVE filterFirst(_, _)
\* sources.filter((v,i,a) => a.findIndex(v2 => v2.url === v.url) === i),
\* from index i on
filterFirst(a, i) ==
    IF i > Len(a) THEN <<>>
    ELSE IF findIndex(a, a[i].url) = i
         THEN <<a[i]>> \o filterFirst(a, i + 1)
         ELSE filterFirst(a, i + 1)

\* .slice(0, n)
slice0(a, n) == SubSeq(a, 1, IF Len(a) < n THEN Len(a) ELSE n)

uniqueSources(cs) == slice0(filterFirst(webSources(cs), 1), SourceCap)

\* the SearchResult performMarketSearch returns: the parsed data (here the
\* requirement list it was asked about) with the sources attached
performMarketSearch(reqs, cs) == [query |-> reqs, sources |-> uniqueSources(cs)]

\* the grounding chunks of a session's search responses
SessionChunkLists ==
    {<<Chunk("u1", "A"), Chunk("u1", "B")>>}

\* variant whose catch block also drops the stored search result
performMarketSearchDoneClearsResult ==
    /\ call.kind = "performMarketSearch"
    /\ \/ /\ \E cs \in SessionChunkLists :
               searchResult' = performMarketSearch(call.requirements, cs)
          /\ state' = "VIEW_SEARCH_RESULTS"
          /\ lastOp' = "search:ok"
          /\ UNCHANGED error
       \/ \E msg \in SearchErrors :
            /\ error' = Str("Search Connection Failed: " \o
                            (IF msg # "" THEN msg ELSE "Network or API Key issue"))
            /\ state' = "CONFIRM_REQUIREMENTS"
            /\ lastOp' = "search:failed"
            /\ searchResult' = Null
    /\ call' = NoCall
    /\ UNCHANGED <<variant, file, customerName, requirements, schemes,
                   bestScheme, loadingMsg, generatedImage, isGeneratingImage,
                   isDownloading, imageCalls, downloadCall, viaReUpload, sub, extra, ws, chunks, found, docName, savedAs, sheet, pages>>

\* variant that stores the returned result only when none is stored yet
performMarketSearchDoneKeepsFirstResult ==
    /\ call.kind = "performMarketSearch"
    /\ \/ /\ \E cs \in SessionChunkLists :
               searchResult' = IF searchResult = Null
                               THEN performMarketSearch(call.requirements, cs)
                               ELSE searchResult
          /\ state' = "VIEW_SEARCH_RESULTS"
          /\ lastOp' = "search:ok"
          /\ UNCHANGED error
       \/ \E msg \in SearchErrors :
            /\ error' = Str("Search Connection Failed: " \o
                            (IF msg # "" THEN msg ELSE "Network or API Key issue"))
            /\ state' = "CONFIRM_REQUIREMENTS"
            /\ lastOp' = "search:failed"
            /\ UNCHANGED searchResult
    /\ call' = NoCall
    /\ UNCHANGED <<variant, file, customerName, requirements, schemes,
                   bestScheme, loadingMsg, generatedImage, isGeneratingImage,
                   isDownloading, imageCalls, downloadCall, viaReUpload, sub, extra, ws, chunks, found, docName, savedAs, sheet, pages>>

performMarketSearchDone ==
    /\ call.kind = "performMarketSearch"
    /\ \/ /\ \E cs \in SessionChunkLists :
               searchResult' = performMarketSearch(call.requirements, cs)
          /\ state' = "VIEW_SEARCH_RESULTS"
          /\ lastOp' = "search:ok"
          /\ UNCHANGED error
       \/ \E msg \in SearchErrors :
            /\ error' = Str("Search Connection Failed: " \o
                            (IF msg # "" THEN msg ELSE "Network or API Key issue"))
            /\ state' = "CONFIRM_REQUIREMENTS"
            /\ lastOp' = "search:failed"
            /\ UNCHANGED searchResult
    /\ call' = NoCall
    /\ UNCHANGED <<variant, file, customerName, requirements, schemes,
                   bestScheme, loadingMsg, generatedImage, isGeneratingImage,
                   isDownloading, imageCalls, downloadCall, viaReUpload, sub, extra, ws, chunks, found, docName, savedAs, sheet, pages>>

(***************************************************************************)
(* handleGenerateSchemes (search variant)                                  *)
(***************************************************************************)
\* variant that dispatches without leaving the search-result view
handleGenerateSchemesStaysInView ==
    /\ variant = "search"
    /\ state = "VIEW_SEARCH_RESULTS"
    /\ IF searchResult = Null
       THEN /\ lastOp' = "generate:ignored"
            /\ UNCHANGED <<error, state, loadingMsg, call>>
       ELSE /\ error' = Null
            /\ loadingMsg' = "Generating Color Strategies..."
            /\ call' = [kind |-> "generateAndScoreSchemes",
                        requirements |-> requirements,
                        searchResult |-> searchResult]
            /\ lastOp' = "generate:start"
            /\ UNCHANGED state
    /\ UNCHANGED <<variant, file, customerName, requirements, searchResult,
                   schemes, bestScheme, generatedImage, isGeneratingImage,
                   isDownloading, imageCalls, downloadCall, viaReUpload, sub, extra, ws, chunks, found, docName, savedAs, sheet, pages>>

handleGenerateSchemes ==
    /\ variant = "search"
    /\ state = "VIEW_SEARCH_RESULTS"
    /\ IF searchResult = Null
       THEN /\ lastOp' = "generate:ignored"
            /\ UNCHANGED <<error, state, loadingMsg, call>>
       ELSE /\ error' = Null
            /\ state' = "SEARCHING"
            /\ loadingMsg' = "Generating Color Strategies..."
            /\ call' = [kind |-> "generateAndScoreSchemes",
                        requirements |-> requirements,
                        searchResult |-> searchResult]
            /\ lastOp' = "generate:start"
    /\ UNCHANGED <<variant, file, customerName, requirements, searchResult,
                   schemes, bestScheme, generatedImage, isGeneratingImage,
                   isDownloading, imageCalls, downloadCall, viaReUpload, sub, extra, ws, chunks, found, docName, savedAs, sheet, pages>>

(***************************************************************************)
(* handleStartSearch (simulated variant): two timers, then the generator   *)
(***************************************************************************)
handleStartSearchSimulated ==
    /\ variant = "simulated"
    /\ state = "CONFIRM_REQUIREMENTS"
    /\ state' = "SEARCHING"
    /\ loadingMsg' = "AI Agent searching global design trends..."
    /\ call' = [kind |-> "timer1", requirements |-> requirements]
    /\ lastOp' = "search:start"
    /\ UNCHANGED <<variant, file, customerName, requirements, searchResult,
                   schemes, bestScheme, error, generatedImage,
                   isGeneratingImage, isDownloading, imageCalls,
                   downloadCall, viaReUpload, sub, extra, ws, chunks, found, docName, savedAs, sheet, pages>>

\* variant whose second timer is not followed by the generator call
timerDoneStopsAfterSecond ==
    /\ call.kind \in {"timer1", "timer2"}
    /\ IF call.kind = "timer1"
       THEN /\ loadingMsg' = "Analyzing Pantone 2024/2025 reports..."
            /\ call' = [call EXCEPT !.kind = "timer2"]
       ELSE /\ loadingMsg' = "Cross-referencing market data on Behance/Pinterest..."
            /\ call' = NoCall
    /\ lastOp' = "search:timer"
    /\ UNCHANGED <<variant, state, file, customerName, requirements,
                   searchResult, schemes, bestScheme, error, generatedImage,
                   isGeneratingImage, isDownloading, imageCalls,
                   downloadCall, viaReUpload, sub, extra, ws, chunks, found, docName, savedAs, sheet, pages>>

timerDone ==
    /\ call.kind \in {"timer1", "timer2"}
    /\ IF call.kind = "timer1"
       THEN /\ loadingMsg' = "Analyzing Pantone 2024/2025 reports..."
            /\ call' = [call EXCEPT !.kind = "timer2"]
       ELSE /\ loadingMsg' = "Cross-referencing market data on Behance/Pinterest..."
            /\ call' = [kind |-> "generateAndScoreSchemes",
                        requirements |-> call.requirements,
                        searchResult |-> Null]
    /\ lastOp' = "search:timer"
    /\ UNCHANGED <<variant, state, file, customerName, requirements,
                   searchResult, schemes, bestScheme, error, generatedImage,
                   isGeneratingImage, isDownloading, imageCalls,
                   downloadCall, viaReUpload, sub, extra, ws, chunks, found, docName, savedAs, sheet, pages>>

(***************************************************************************)
(* generateAndScoreSchemes settles (both variants)                         *)
(***************************************************************************)
\* variant in which both catch blocks return to the requirements view
generateCatchStateRequirements(v) == "CONFIRM_REQUIREMENTS"

\* the view the catch block returns to
generateCatchState(v) ==
    IF v = "search" THEN "VIEW_SEARCH_RESULTS" ELSE "CONFIRM_REQUIREMENTS"

\* the message the catch block stores
generateError(v, msg) ==
    IF v = "search" THEN Str("Generation Failed: " \o msg)
    ELSE Str(IF msg # "" THEN msg ELSE "Search failed")

generateCatch(msg) ==
    /\ error' = generateError(variant, msg)
    /\ state' = generateCatchState(variant)
    /\ lastOp' = "generate:failed"
    /\ UNCHANGED bestScheme

\* variant whose reduce starts from null and so accepts an empty batch
generateDoneAcceptsEmpty(batches) ==
    /\ call.kind = "generateAndScoreSchemes"
    /\ \/ \E raw \in batches :
            LET generatedSchemes == generateAndScoreSchemes(Response(raw)) IN
            /\ schemes' = generatedSchemes
            /\ bestScheme' = IF generatedSchemes = <<>> THEN Null
                             ELSE best(variant, generatedSchemes)
            /\ state' = "COMPARING"
            /\ lastOp' = "generate:ok"
            /\ UNCHANGED error
       \/ \E msg \in GenerateErrors(variant) :
            /\ generateCatch(msg)
            /\ UNCHANGED schemes
    /\ call' = NoCall
    /\ UNCHANGED <<variant, file, customerName, requirements, searchResult,
                   loadingMsg, generatedImage, isGeneratingImage,
                   isDownloading, imageCalls, downloadCall, viaReUpload, sub, extra, ws,
                   chunks, found, docName, savedAs, sheet, pages>>

generateDone(batches) ==
    /\ call.kind = "generateAndScoreSchemes"
    /\ \/ \E raw \in batches :
            LET generatedSchemes == generateAndScoreSchemes(Response(raw)) IN
            /\ schemes' = generatedSchemes
            /\ IF generatedSchemes = <<>>
               THEN generateCatch(ReduceError)
               ELSE /\ bestScheme' = best(variant, generatedSchemes)
                    /\ state' = "COMPARING"
                    /\ lastOp' = "generate:ok"
                    /\ UNCHANGED error
       \/ \E msg \in GenerateErrors(variant) :
            /\ generateCatch(msg)
            /\ UNCHANGED schemes
    /\ call' = NoCall
    /\ UNCHANGED <<variant, file, customerName, requirements, searchResult,
                   loadingMsg, generatedImage, isGeneratingImage,
                   isDownloading, imageCalls, downloadCall, viaReUpload, sub, extra, ws, chunks, found, docName, savedAs, sheet, pages>>

(***************************************************************************)
(* Preview image (search variant)                                          *)
(***************************************************************************)
\* generatePreviewImage up to its await
generatePreviewImage ==
    IF bestScheme = Null
    THEN UNCHANGED <<isGeneratingImage, imageCalls>>
    ELSE /\ isGeneratingImage' = TRUE
         /\ imageCalls' = imageCalls (+) SetToBag({[scheme |-> bestScheme]})

\* the data URI generateVisualizationImage returns for a scheme's palette
generateVisualizationImage(scheme) == [renderOf |-> scheme]

\* variant that requests a preview whether or not an image is stored
viewBestSchemeAlwaysRequests ==
    /\ state = "COMPARING"
    /\ state' = "RESULT"
    /\ lastOp' = "viewBest"
    /\ IF variant = "search"
       THEN /\ BagCardinality(imageCalls) < MaxImageCalls
            /\ generatePreviewImage
       ELSE UNCHANGED <<isGeneratingImage, imageCalls>>
    /\ UNCHANGED <<variant, file, customerName, requirements, searchResult,
                   schemes, bestScheme, loadingMsg, error, generatedImage,
                   isDownloading, call, downloadCall, viaReUpload, sub, extra, ws, chunks, found, docName, savedAs, sheet, pages>>

\* "View Best Scheme" of renderComparison
viewBestScheme ==
    /\ state = "COMPARING"
    /\ state' = "RESULT"
    /\ lastOp' = "viewBest"
    /\ IF variant = "search" /\ generatedImage = Null
       THEN /\ BagCardinality(imageCalls) < MaxImageCalls
            /\ generatePreviewImage
       ELSE UNCHANGED <<isGeneratingImage, imageCalls>>
    /\ UNCHANGED <<variant, file, customerName, requirements, searchResult,
                   schemes, bestScheme, loadingMsg, error, generatedImage,
                   isDownloading, call, downloadCall, viaReUpload, sub, extra, ws, chunks, found, docName, savedAs, sheet, pages>>

\* "Generate Render" of renderResult
generateRender ==
    /\ variant = "search"
    /\ state = "RESULT"
    /\ bestScheme # Null
    /\ generatedImage = Null /\ ~isGeneratingImage /\ ~isDownloading
    /\ BagCardinality(imageCalls) < MaxImageCalls
    /\ generatePreviewImage
    /\ lastOp' = "image:start"
    /\ UNCHANGED <<variant, state, file, customerName, requirements,
                   searchResult, schemes, bestScheme, loadingMsg, error,
                   generatedImage, isDownloading, call, downloadCall, viaReUpload, sub, extra, ws, chunks, found, docName, savedAs, sheet, pages>>

\* generateVisualizationImage settles for one of the requests in flight
imageDone ==
    /\ \E c \in BagToSet(imageCalls) :
         /\ \/ /\ generatedImage' = generateVisualizationImage(c.scheme)
               /\ lastOp' = "image:ok"
            \/ /\ UNCHANGED generatedImage
               /\ lastOp' = "image:failed"
         /\ imageCalls' = imageCalls (-) SetToBag({c})
    /\ isGeneratingImage' = FALSE
    /\ UNCHANGED <<variant, state, file, customerName, requirements,
                   searchResult, schemes, bestScheme, loadingMsg, error,
                   isDownloading, call, downloadCall, viaReUpload, sub, extra, ws, chunks, found, docName, savedAs, sheet, pages>>

(***************************************************************************)
(* handleDownloadPDF                                                       *)
(***************************************************************************)
\* document.getElementById('report-content') finds the report
reportContent == state = "RESULT" /\ bestScheme # Null

handleDownloadPDFSearch ==
    /\ variant = "search"
    /\ state = "RESULT"
    /\ bestScheme # Null
    /\ ~isDownloading
    /\ IF ~reportContent
       THEN /\ error' = Str("Could not find report content.")
            /\ UNCHANGED <<isDownloading, downloadCall>>
       ELSE /\ isDownloading' = TRUE
            /\ downloadCall' = TRUE
            /\ UNCHANGED error
    /\ lastOp' = "download:start"
    /\ UNCHANGED <<variant, state, file, customerName, requirements,
                   searchResult, schemes, bestScheme, loadingMsg,
                   generatedImage, isGeneratingImage, call, imageCalls,
                   viaReUpload, sub, extra, ws, chunks, found, docName, savedAs, sheet, pages>>

\* variant without the finally block: a failed export stays busy
downloadDoneBusyAfterFailure ==
    /\ downloadCall
    /\ \/ /\ lastOp' = "download:ok"
          /\ isDownloading' = FALSE
          /\ UNCHANGED error
       \/ /\ error' = Str("PDF generation failed. Please try again.")
          /\ lastOp' = "download:failed"
          /\ UNCHANGED isDownloading
    /\ downloadCall' = FALSE
    /\ UNCHANGED <<variant, state, file, customerName, requirements,
                   searchResult, schemes, bestScheme, loadingMsg,
                   generatedImage, isGeneratingImage, call, imageCalls,
                   viaReUpload, sub, extra, ws, chunks, found, docName, savedAs, sheet, pages>>

\* html2canvas and the page tiling settle
downloadDone ==
    /\ downloadCall
    /\ \/ /\ lastOp' = "download:ok"
          /\ UNCHANGED error
       \/ /\ error' = Str("PDF generation failed. Please try again.")
          /\ lastOp' = "download:failed"
    /\ isDownloading' = FALSE
    /\ downloadCall' = FALSE
    /\ UNCHANGED <<variant, state, file, customerName, requirements,
                   searchResult, schemes, bestScheme, loadingMsg,
                   generatedImage, isGeneratingImage, call, imageCalls,
                   viaReUpload, sub, extra, ws, chunks, found, docName, savedAs, sheet, pages>>

\* the simulated variant composes the document synchronously and keeps no
\* state about it; an exception of the document library is not caught
handleDownloadPDFSimulated ==
    /\ variant = "simulated"
    /\ state = "RESULT"
    /\ bestScheme # Null
    /\ lastOp' \in {"download:ok", "download:failed"}
    /\ UNCHANGED <<variant, state, file, customerName, requirements,
                   searchResult, schemes, bestScheme, loadingMsg, error,
                   generatedImage, isGeneratingImage, isDownloading, call,
                   imageCalls, downloadCall, viaReUpload, sub, extra, ws, chunks, found, docName, savedAs, sheet, pages>>

(***************************************************************************)
(* "New" / "Start New" of renderResult                                     *)
(***************************************************************************)
\* variant that returns to the variant's initial view
resetToInitialView ==
    /\ state = "RESULT"
    /\ bestScheme # Null
    /\ state' = IF variant = "search" THEN "LANDING" ELSE "UPLOAD"
    /\ schemes' = <<>>
    /\ requirements' = <<>>
    /\ IF variant = "search"
       THEN /\ bestScheme' = Null
            /\ generatedImage' = Null
       ELSE UNCHANGED <<bestScheme, generatedImage>>
    /\ lastOp' = "reset"
    /\ UNCHANGED <<variant, file, customerName, searchResult, loadingMsg,
                   error, isGeneratingImage, isDownloading, call, imageCalls,
                   downloadCall, viaReUpload, sub, extra, ws, chunks, found, docName, savedAs, sheet, pages>>

reset ==
    /\ state = "RESULT"
    /\ bestScheme # Null
    /\ state' = "UPLOAD"
    /\ schemes' = <<>>
    /\ requirements' = <<>>
    /\ IF variant = "search"
       THEN /\ bestScheme' = Null
            /\ generatedImage' = Null
       ELSE UNCHANGED <<bestScheme, generatedImage>>
    /\ lastOp' = "reset"
    /\ UNCHANGED <<variant, file, customerName, searchResult, loadingMsg,
                   error, isGeneratingImage, isDownloading, call, imageCalls,
                   downloadCall, viaReUpload, sub, extra, ws, chunks, found, docName, savedAs, sheet, pages>>

(***************************************************************************)
(* The wizard                                                              *)
(***************************************************************************)
Next ==
    \/ renderLanding
    \/ \E f \in Files : handleFileUpload(f)
    \/ extractTextDone
    \/ extractRequirementsDone
    \/ reUpload
    \/ handleStartSearchSearch
    \/ performMarketSearchDone
    \/ handleGenerateSchemes
    \/ handleStartSearchSimulated
    \/ timerDone
    \/ generateDone(SessionBatches)
    \/ viewBestScheme
    \/ generateRender
    \/ imageDone
    \/ handleDownloadPDFSearch
    \/ downloadDone
    \/ handleDownloadPDFSimulated
    \/ reset

Spec == Init /\ [][Next]_vars

(***************************************************************************)
(* The wizard when every awaited call and timer eventually settles         *)
(***************************************************************************)
Settles ==
    /\ WF_vars(extractTextDone)
    /\ WF_vars(extractRequirementsDone)
    /\ WF_vars(performMarketSearchDone)
    /\ WF_vars(timerDone)
    /\ WF_vars(generateDone(SessionBatches))
    /\ WF_vars(imageDone)
    /\ WF_vars(downloadDone)

LiveSpec == Spec /\ Settles

(***************************************************************************)
(* The scorer on its own: every sub-score record on the 0-10 scale         *)
(***************************************************************************)
SubScores ==
    [match : 0..MaxSubScore, trend : 0..MaxSubScore, market : 0..MaxSubScore,
     innovation : 0..MaxSubScore, harmony : 0..MaxSubScore]

\* what a scheme of the response may carry besides its sub-scores: a name,
\* and possibly a weightedScore of the generator's own
OtherFields ==
    {[name |-> "Coastal"], [name |-> "Ember"],
     [name |-> "Coastal", weightedScore |-> <<"9", ".", "9", "9">>]}

ScoreInit ==
    /\ WizardInit
    /\ sub \in SubScores
    /\ extra \in OtherFields
    /\ ws = NoScore
    /\ chunks = <<>>
    /\ found = Null
    /\ docName = <<>>
    /\ savedAs = Null
    /\ sheet = Null
    /\ pages = Null

\* generateAndScoreSchemes attaches the weightedScore to one scheme
scoreScheme ==
    /\ ws = NoScore
    /\ ws' = generateAndScoreSchemes(<<ResponseScheme(sub, extra)>>)[1].weightedScore
    /\ UNCHANGED <<wizardVars, sub, extra, chunks, found, docName, savedAs, sheet, pages>>

ScoreNext == scoreScheme

ScoreSpec == ScoreInit /\ [][ScoreNext]_vars

(***************************************************************************)
(* performMarketSearch on its own: every list of up to MaxChunks grounding *)
(* chunks, with repeated urls under another title, chunks without title    *)
(* and chunks without uri                                                  *)
(***************************************************************************)
UrlNames == <<"u1", "u2", "u3", "u4", "u5", "u6", "u7", "u8">>

\* the urls of the chunks of l that have a title
seenUrls(l) == {l[k].uri : k \in {j \in 1..Len(l) : hasWeb(l[j])}}

\* the chunks that may follow l.  Urls are named in the order in which they
\* first occur with a title, so that lists equal up to a renaming of urls
\* are listed once: a seen url again under another title, the next url,
\* the next url without a title, and a chunk without uri.
NextChunks(l) ==
    LET m == Cardinality(seenUrls(l)) IN
    {Chunk(UrlNames[i], "B") : i \in 1..m}
        \cup (IF m < Len(UrlNames)
              THEN {Chunk(UrlNames[m + 1], "A"), Chunk(UrlNames[m + 1], "")}
              ELSE {})
        \cup {Chunk("", "A")}

RECURSIVE ChunkListsOfLen(_)
ChunkListsOfLen(n) ==
    IF n = 0 THEN {<<>>}
    ELSE UNION { {Append(l, c) : c \in NextChunks(l)} : l \in ChunkListsOfLen(n - 1) }

ChunkLists == UNION { ChunkListsOfLen(n) : n \in 0..MaxChunks }

SourcesInit ==
    /\ WizardInit
    /\ variant = "search"
    /\ sub = Null
    /\ extra = Null
    /\ ws = NoScore
    /\ chunks \in ChunkLists
    /\ found = Null
    /\ docName = <<>>
    /\ savedAs = Null
    /\ sheet = Null
    /\ pages = Null

\* performMarketSearch returns the SearchResult for the response
marketSearchReturns ==
    /\ found = Null
    /\ found' = performMarketSearch(<<[id |-> 1]>>, chunks)
    /\ UNCHANGED <<wizardVars, sub, extra, ws, chunks, docName, savedAs, sheet, pages>>

SourcesNext == marketSearchReturns

SourcesSpec == SourcesInit /\ [][SourcesNext]_vars

(***************************************************************************)
(* The file name of the exported document on its own: every customer name  *)
(* of up to MaxNameLen characters, whitespace included                     *)
(***************************************************************************)
\* the characters \s matches, among those of NameChars
Whitespace == {" ", "\t"}

NameChars == {"A", "b"} \cup Whitespace

NameInputs == UNION { [1..n -> NameChars] : n \in 0..MaxNameLen }

RECURSIVE replaceWhitespaceRuns(_)
\* name.replace(/\s+/g, '_'): every maximal run of whitespace becomes one _
replaceWhitespaceRuns(cs) ==
    IF cs = <<>> THEN <<>>
    ELSE IF Head(cs) \in Whitespace
         THEN IF Len(cs) > 1 /\ cs[2] \in Whitespace
              THEN replaceWhitespaceRuns(Tail(cs))
              ELSE <<"_">> \o replaceWhitespaceRuns(Tail(cs))
         ELSE <<Head(cs)>> \o replaceWhitespaceRuns(Tail(cs))

\* variant of the search export that replaces whitespace as well
fileNameNormalized(v, name) ==
    IF v = "search"
    THEN <<"C", "o", "l", "o", "r", "I", "n", "s", "i", "g", "h", "t", "_", "R", "e", "p", "o", "r", "t", "_">> \o
         replaceWhitespaceRuns(IF name # <<>> THEN name ELSE <<"C", "l", "i", "e", "n", "t">>) \o
         <<".", "p", "d", "f">>
    ELSE replaceWhitespaceRuns(name) \o
         <<"_", "C", "o", "l", "o", "r", "_", "S", "t", "r", "a", "t", "e", "g", "y", ".", "p", "d", "f">>

\* the argument of pdf.save / doc.save:
\*   `ColorInsight_Report_${customerName || 'Client'}.pdf`
\*   `${customerName.replace(/\s+/g, '_')}_Color_Strategy.pdf`
fileName(v, name) ==
    IF v = "search"
    THEN <<"C", "o", "l", "o", "r", "I", "n", "s", "i", "g", "h", "t", "_", "R", "e", "p", "o", "r", "t", "_">> \o
         (IF name # <<>> THEN name ELSE <<"C", "l", "i", "e", "n", "t">>) \o
         <<".", "p", "d", "f">>
    ELSE replaceWhitespaceRuns(name) \o
         <<"_", "C", "o", "l", "o", "r", "_", "S", "t", "r", "a", "t", "e", "g", "y", ".", "p", "d", "f">>

FileNameInit ==
    /\ WizardInit
    /\ sub = Null
    /\ extra = Null
    /\ ws = NoScore
    /\ chunks = <<>>
    /\ found = Null
    /\ docName \in NameInputs
    /\ savedAs = Null
    /\ sheet = Null
    /\ pages = Null

\* handleDownloadPDF saves the document
saveDocument ==
    /\ savedAs = Null
    /\ savedAs' = [name |-> fileName(variant, docName)]
    /\ UNCHANGED <<wizardVars, sub, extra, ws, chunks, found, docName, sheet, pages>>

FileNameNext == saveDocument

FileNameSpec == FileNameInit /\ [][FileNameNext]_vars

(***************************************************************************)
(* Layout: the step indicator of the sidebar.  Indices are those of the    *)
(* steps array (from 0); -1 is findIndex's "not found".                    *)
(***************************************************************************)
steps == <<"UPLOAD", "ANALYZING_DOC", "SEARCHING", "COMPARING", "RESULT">>

StepIndices == 0..(Len(steps) - 1)

\* steps.findIndex(s => s.id === id)
stepsFindIndex(id) ==
    IF \E i \in StepIndices : steps[i + 1] = id
    THEN CHOOSE i \in StepIndices : steps[i + 1] = id
    ELSE -1

\* Layout of the search variant
getCurrentStepIndexSearch(currentState) ==
    IF currentState = "CONFIRM_REQUIREMENTS" THEN 1
    ELSE IF currentState = "VIEW_SEARCH_RESULTS" THEN 2
    ELSE IF stepsFindIndex(currentState) = -1 THEN 0
    ELSE stepsFindIndex(currentState)

\* Layout of the simulated variant: CONFIRM_REQUIREMENTS is not in steps
getCurrentStepIndexSimulated(currentState) ==
    IF stepsFindIndex(currentState) = -1
    THEN stepsFindIndex("CONFIRM_REQUIREMENTS")
    ELSE stepsFindIndex(currentState)

getCurrentStepIndex(v, currentState) ==
    IF v = "search" THEN getCurrentStepIndexSearch(currentState)
    ELSE getCurrentStepIndexSimulated(currentState)

isActive(v, currentState, index) ==
    IF v = "search"
    THEN index = getCurrentStepIndex(v, currentState)
    ELSE \/ index = getCurrentStepIndex(v, currentState)
         \/ currentState = "CONFIRM_REQUIREMENTS" /\ steps[index + 1] = "ANALYZING_DOC"

isCompleted(v, currentState, index) ==
    index < getCurrentStepIndex(v, currentState)

\* the search variant's Layout renders the landing page without a sidebar
sidebarShown(v, currentState) == ~(v = "search" /\ currentState = "LANDING")

(***************************************************************************)
(* The page tiling of the snapshot export on its own: every bitmap height  *)
(* up to MaxBitmapHeight on every page height up to MaxPageHeight          *)
(***************************************************************************)
Sheets == [imgHeight : 1..MaxBitmapHeight, pdfHeight : 1..MaxPageHeight]

RECURSIVE tileWhile(_, _, _)
\* while (heightLeft >= 0) { position = heightLeft - imgHeight;
\*   pdf.addPage(); pdf.addImage(..., position, ...); heightLeft -= pdfHeight }
tileWhile(heightLeft, imgHeight, pdfHeight) ==
    IF heightLeft >= 0
    THEN <<heightLeft - imgHeight>> \o
         tileWhile(heightLeft - pdfHeight, imgHeight, pdfHeight)
    ELSE <<>>

\* the vertical offsets of the pages: the first page at position 0, then
\* the loop with heightLeft = imgHeight - pdfHeight
tilePages(imgHeight, pdfHeight) ==
    <<0>> \o tileWhile(imgHeight - pdfHeight, imgHeight, pdfHeight)

TilingInit ==
    /\ WizardInit
    /\ variant = "search"
    /\ sub = Null
    /\ extra = Null
    /\ ws = NoScore
    /\ chunks = <<>>
    /\ found = Null
    /\ docName = <<>>
    /\ savedAs = Null
    /\ sheet \in Sheets
    /\ pages = Null

\* handleDownloadPDF lays the bitmap out on pages
tileDocument ==
    /\ pages = Null
    /\ pages' = [offsets |-> tilePages(sheet.imgHeight, sheet.pdfHeight)]
    /\ UNCHANGED <<wizardVars, sub, extra, ws, chunks, found, docName, savedAs, sheet>>

TilingNext == tileDocument

TilingSpec == TilingInit /\ [][TilingNext]_vars

(***************************************************************************)
(* The ranking step on its own: a session whose scheme generation is in    *)
(* flight, completed with every response of up to MaxBatch schemes         *)
(***************************************************************************)
RankInit ==
    /\ variant \in {"search", "simulated"}
    /\ state = "SEARCHING"
    /\ file = IF variant = "simulated"
              THEN [type |-> "application/pdf", size |-> 1024] ELSE Null
    /\ customerName = "Acme"
    /\ requirements = <<[id |-> 1]>>
    /\ searchResult = IF variant = "search"
                      THEN CHOOSE r \in {performMarketSearch(requirements, cs) :
                                           cs \in SessionChunkLists} : TRUE
                      ELSE Null
    /\ schemes = <<>>
    /\ bestScheme = Null
    /\ loadingMsg = IF variant = "search" THEN "Generating Color Strategies..."
                    ELSE "Cross-referencing market data on Behance/Pinterest..."
    /\ error = Null
    /\ generatedImage = Null
    /\ isGeneratingImage = FALSE
    /\ isDownloading = FALSE
    /\ call = [kind |-> "generateAndScoreSchemes",
               requirements |-> requirements,
               searchResult |-> searchResult]
    /\ imageCalls = EmptyBag
    /\ downloadCall = FALSE
    /\ lastOp = IF variant = "search" THEN "generate:start" ELSE "search:timer"
    /\ viaReUpload = FALSE
    /\ sub = Null
    /\ extra = Null
    /\ ws = NoScore
    /\ chunks = <<>>
    /\ found = Null
    /\ docName = <<>>
    /\ savedAs = Null
    /\ sheet = Null
    /\ pages = Null

RankNext == generateDone(RawBatches)

RankSpec == RankInit /\ [][RankNext]_vars

\* RankInit is a state of the wizard (violated as an invariant of Spec)
RankInitUnreachable == ~RankInit

(***************************************************************************)
(* Properties                                                              *)
(***************************************************************************)
\* composite score of a scheme as a number, in hundredths
Composite(s) == Number(s.weightedScore)

IsMaximal(batch, i) ==
    \A j \in 1..Len(batch) : Composite(batch[j]) <= Composite(batch[i])

Maxima(batch) == { i \in 1..Len(batch) : IsMaximal(batch, i) }

FirstMaximum(batch) == CHOOSE i \in Maxima(batch) : \A j \in Maxima(batch) : i <= j

Composites(batch) == [i \in 1..Len(batch) |-> Composite(batch[i])]

\* C1 as stated: when the maximal composite score occurs more than once in a
\* generated batch, the scheme selected as best is the first scheme in
\* generation order that carries the maximum.
C1_FirstMaximumWins ==
    (lastOp = "generate:ok" /\ Cardinality(Maxima(schemes)) > 1)
        => bestScheme = schemes[FirstMaximum(schemes)]

\* C2 as stated: after a successful generation the numeric weighted score of
\* bestScheme is at least that of every scheme of the batch.
C2_BestIsNumericMaximum ==
    lastOp = "generate:ok" =>
        \A i \in 1..Len(schemes) : Composite(bestScheme) >= Composite(schemes[i])

\* C3: the weightedScore attached to a scheme is the two-decimal rendering of
\* 0.30 match + 0.25 trend + 0.20 market + 0.15 innovation + 0.10 harmony and
\* lies in [0.00, 10.00].
C3_WeightedScoreFormula ==
    ws # NoScore =>
        /\ Len(ws) \in {4, 5}
        /\ ws[Len(ws) - 2] = "."
        /\ Number(ws) = 30 * sub.match + 25 * sub.trend + 20 * sub.market
                        + 15 * sub.innovation + 10 * sub.harmony
        /\ Number(ws) >= 0
        /\ Number(ws) <= 1000

C3_Witness ==
    /\ sub = [match |-> 10, trend |-> 9, market |-> 10, innovation |-> 10, harmony |-> 10]
    /\ ws = <<"9", ".", "7", "5">>

FixedSubScores == [match |-> 8, trend |-> 7, market |-> 6, innovation |-> 5, harmony |-> 9]

\* C4 as stated: the sub-scores (8, 7, 6, 5, 9) give the composite 6.95.
C4_FixedScoreIs695 ==
    (sub = FixedSubScores /\ ws # NoScore) => ws = <<"6", ".", "9", "5">>

\* C4 amended: the sub-scores (8, 7, 6, 5, 9) give the composite 7.00.
C4_FixedScoreIs700 ==
    (sub = FixedSubScores /\ ws # NoScore) => ws = <<"7", ".", "0", "0">>

C4_Witness == sub = FixedSubScores /\ ws # NoScore

\* C5 as stated: right after the reset action requirements and schemes are
\* empty and bestScheme and generatedImage are null, in both variants.
C5_ResetClearsResults ==
    lastOp = "reset" =>
        /\ requirements = <<>>
        /\ schemes = <<>>
        /\ bestScheme = Null
        /\ generatedImage = Null

\* C6 as stated: right after the reset action every data field has the value
\* it had at application start.
C6_ResetRestoresInitialData ==
    lastOp = "reset" =>
        /\ customerName = ""
        /\ requirements = <<>>
        /\ searchResult = Null
        /\ schemes = <<>>
        /\ bestScheme = Null
        /\ generatedImage = Null
        /\ error = Null

\* C7 as stated: a failing document analysis leaves requirements empty and
\* the session in the UPLOAD view with a non-null error, in both variants.
C7_FailedAnalysisLeavesNoRequirements ==
    lastOp = "processFile:failed" =>
        /\ requirements = <<>>
        /\ state = "UPLOAD"
        /\ error # Null

\* C7 amended: a failing document analysis puts the session in the UPLOAD
\* view with a non-null error and leaves requirements as they were when the
\* file was selected.  That list is empty, in both variants, unless the
\* session came back to the Upload step through Re-upload and no analysis
\* has succeeded since; then it is the list the last successful analysis
\* stored, which Re-upload, rejected uploads and failed analyses all leave
\* in place.
C7_FailedAnalysisKeepsRequirements ==
    /\ [](lastOp = "processFile:failed" =>
            /\ state = "UPLOAD"
            /\ error # Null
            /\ (~viaReUpload => requirements = <<>>))
    /\ []((state \in {"UPLOAD", "ANALYZING_DOC"} /\ ~viaReUpload) =>
            requirements = <<>>)
    /\ [][(state = "ANALYZING_DOC" /\ state' # "CONFIRM_REQUIREMENTS")
            => requirements' = requirements]_vars
    /\ [][(state = "UPLOAD" /\ state' = "ANALYZING_DOC")
            => requirements' = requirements]_vars
    /\ [][lastOp' = "reUpload" => requirements' = requirements]_vars

\* a requirement extraction that fails in the simulated variant after
\* Re-upload: the list of the earlier analysis is still stored
C7_Witness ==
    /\ lastOp = "processFile:failed"
    /\ variant = "simulated"
    /\ viaReUpload
    /\ requirements # <<>>
    /\ state = "UPLOAD"
    /\ error = Str("No response from AI")

\* C8 as stated: a file that is not a PDF is rejected: the view stays
\* UPLOAD, error is a non-empty message, no call is dispatched and the
\* session holds zero requirements, in both variants.
C8_NonPdfRejectedWithNoRequirements ==
    lastOp = "upload:notPdf" =>
        /\ state = "UPLOAD"
        /\ error # Null
        /\ error # Str("")
        /\ call = NoCall
        /\ requirements = <<>>

\* C8 amended: a file that is not a PDF is rejected: the view stays UPLOAD,
\* error is a non-empty message, no call is dispatched and requirements are
\* left as they were.  The session then holds zero requirements, in both
\* variants, unless it came back to the Upload step through Re-upload and no
\* analysis has succeeded since (also when a failed analysis brought it back
\* to the Upload view in between); then the previously extracted list is
\* still stored.
C8_NonPdfRejected ==
    /\ [](lastOp = "upload:notPdf" =>
            /\ state = "UPLOAD"
            /\ error # Null
            /\ error # Str("")
            /\ call = NoCall
            /\ (~viaReUpload => requirements = <<>>))
    /\ [](state = "UPLOAD" /\ variant = "search" => requirements = <<>>)
    /\ [][(state = "UPLOAD" /\ lastOp' = "upload:notPdf")
            => (requirements' = requirements /\ state' = state /\ call' = call)]_vars

\* a non-PDF rejected in the simulated variant after Re-upload, with the
\* previously extracted list still stored
C8_Witness ==
    /\ lastOp = "upload:notPdf"
    /\ variant = "simulated"
    /\ viaReUpload
    /\ requirements # <<>>
    /\ error = Str("Please upload a PDF file.")

\* C9: in the simulated variant a PDF larger than 20 MB is rejected like a
\* non-PDF (view stays UPLOAD, error set, no text extraction dispatched),
\* and a PDF of 20 MB or less moves the session to ANALYZING_DOC.
C9_SizeCheck ==
    variant = "simulated" =>
        /\ lastOp = "upload:largePdf" =>
              /\ state = "UPLOAD"
              /\ error # Null
              /\ error # Str("")
              /\ call = NoCall
        /\ lastOp = "upload:pdf" =>
              /\ state = "ANALYZING_DOC"
              /\ file.size <= MaxFileSize
              /\ call = [kind |-> "extractTextFromPDF", file |-> file]

\* a PDF of exactly 20 MB was accepted
C9_Witness ==
    /\ variant = "simulated"
    /\ lastOp = "upload:pdf"
    /\ file.size = MaxFileSize
    /\ state = "ANALYZING_DOC"

\* C10: a failing scheme generation leaves schemes as they were, returns to
\* the preceding confirmation view with error set, and keeps customerName,
\* requirements and searchResult as they were when the call was dispatched;
\* an empty array from the generator is such a failure.
C10_FailedGenerationKeepsData ==
    [][(call.kind = "generateAndScoreSchemes" /\ lastOp' = "generate:failed") =>
          /\ schemes' = schemes
          /\ state' = IF variant = "search" THEN "VIEW_SEARCH_RESULTS"
                      ELSE "CONFIRM_REQUIREMENTS"
          /\ error' # Null
          /\ customerName' = customerName
          /\ requirements' = requirements
          /\ requirements' = call.requirements
          /\ searchResult' = searchResult
          /\ searchResult' = call.searchResult]_vars

\* the generator returned an empty array and the reduction threw
C10_Witness ==
    /\ lastOp = "generate:failed"
    /\ error = Str("Generation Failed: Reduce of empty array with no initial value")
    /\ state = "VIEW_SEARCH_RESULTS"
    /\ searchResult # Null

\* the data fields a failing step must leave alone
ConfirmedData == <<customerName, requirements, searchResult, schemes, bestScheme>>

\* C11: in the search variant a failing market search returns the session
\* to CONFIRM_REQUIREMENTS with a non-null error, and customerName,
\* requirements, searchResult, schemes and bestScheme are what they were
\* before the search started.
C11_FailedSearchKeepsData ==
    /\ [][(variant = "search" /\ state = "CONFIRM_REQUIREMENTS" /\ state' = "SEARCHING")
            => (ConfirmedData' = ConfirmedData /\ call'.requirements = requirements)]_vars
    /\ [][(call.kind = "performMarketSearch" /\ state' # "VIEW_SEARCH_RESULTS")
            => ConfirmedData' = ConfirmedData]_vars
    /\ [][(call.kind = "performMarketSearch" /\ lastOp' = "search:failed") =>
            /\ state' = "CONFIRM_REQUIREMENTS"
            /\ error' # Null
            /\ requirements' = call.requirements
            /\ call' = NoCall]_vars

\* a search failed in a second session: the search result of the first is
\* still stored
C11_Witness ==
    /\ lastOp = "search:failed"
    /\ state = "CONFIRM_REQUIREMENTS"
    /\ error = Str("Search Connection Failed: Network or API Key issue")
    /\ searchResult # Null
    /\ requirements # <<>>

\* the chunks of the response that carry both a uri and a title
ValidChunks == {k \in 1..Len(chunks) : chunks[k].uri # "" /\ chunks[k].title # ""}

\* the position at which each url of a valid chunk occurs first
FirstPositions ==
    {k \in ValidChunks : \A j \in ValidChunks : chunks[j].uri = chunks[k].uri => k <= j}

\* the i-th first position, in the order of the response
NthFirstPosition(i) ==
    CHOOSE k \in FirstPositions : Cardinality({q \in FirstPositions : q <= k}) = i

\* C12: the sources of a SearchResult hold each url at most once, in the
\* order of first occurrence among the chunks that have both a uri and a
\* title, each with the title of that first occurrence, and their number is
\* the smaller of 5 and the number of distinct urls among those chunks.
C12_SourcesDeduplicated ==
    found # Null =>
        LET s == found.sources IN
        /\ \A i, j \in 1..Len(s) : s[i].url = s[j].url => i = j
        /\ Len(s) = IF Cardinality(FirstPositions) < 5
                    THEN Cardinality(FirstPositions) ELSE 5
        /\ \A i \in 1..Len(s) :
               /\ s[i].url = chunks[NthFirstPosition(i)].uri
               /\ s[i].title = chunks[NthFirstPosition(i)].title

\* six chunks with six urls: the list is cut to five
C12_Witness ==
    /\ found # Null
    /\ Cardinality(FirstPositions) = 6
    /\ Len(found.sources) = 5

\* the forward edges of the wizard
ForwardEdges ==
    {<<"LANDING", "UPLOAD">>, <<"UPLOAD", "ANALYZING_DOC">>,
     <<"ANALYZING_DOC", "CONFIRM_REQUIREMENTS">>,
     <<"CONFIRM_REQUIREMENTS", "SEARCHING">>,
     <<"SEARCHING", "VIEW_SEARCH_RESULTS">>,
     <<"VIEW_SEARCH_RESULTS", "SEARCHING">>,
     <<"SEARCHING", "COMPARING">>, <<"COMPARING", "RESULT">>}

\* the regressions after a failure, and reset
FailureEdges ==
    {<<"ANALYZING_DOC", "UPLOAD">>, <<"SEARCHING", "CONFIRM_REQUIREMENTS">>,
     <<"SEARCHING", "VIEW_SEARCH_RESULTS">>}

ResetEdge == <<"RESULT", "UPLOAD">>

ReUploadEdge == <<"CONFIRM_REQUIREMENTS", "UPLOAD">>

FailureOps == {"processFile:failed", "search:failed", "generate:failed"}

\* C13 as stated: every change of the view state is a forward edge, a
\* regression caused by a failure, or reset; only a failure or reset moves
\* the session backward.
C13_ForwardOnly ==
    [][state' # state =>
         \/ <<state, state'>> \in ForwardEdges /\ lastOp' \notin FailureOps
         \/ <<state, state'>> \in FailureEdges /\ lastOp' \in FailureOps
         \/ <<state, state'>> = ResetEdge /\ lastOp' = "reset"]_vars

\* C13, amended: every change of the view state is a forward edge, a
\* regression caused by a failure, reset, or the simulated variant's
\* Re-upload from CONFIRM_REQUIREMENTS to UPLOAD; these last three are the
\* only moves backward.
C13_ForwardOnlyOrReUpload ==
    [][state' # state =>
         \/ <<state, state'>> \in ForwardEdges /\ lastOp' \notin FailureOps
         \/ <<state, state'>> \in FailureEdges /\ lastOp' \in FailureOps
         \/ <<state, state'>> = ResetEdge /\ lastOp' = "reset"
         \/ /\ <<state, state'>> = ReUploadEdge
            /\ lastOp' = "reUpload"
            /\ variant = "simulated"]_vars

\* the user went back from the requirement list to the upload view
C13_Witness ==
    /\ lastOp = "reUpload"
    /\ state = "UPLOAD"
    /\ requirements # <<>>

\* a main-flow call (text extraction, requirement extraction, market
\* search, the simulated search timers, scheme generation) is in flight
MainCallInFlight == call # NoCall

\* the completions after which the same handler awaits its next call
ContinuationOps == {"processFile:text", "search:timer"}

\* no second main-flow call is dispatched while one is in flight: such a
\* call is in flight only in the loading views, which expose no action, and
\* a call is awaited only when none is in flight or when the handler's
\* previous call has just resolved
OneMainCallAtATime ==
    /\ [](MainCallInFlight => state \in {"ANALYZING_DOC", "SEARCHING"})
    /\ [][(call' # call /\ call' # NoCall) =>
            (call = NoCall \/ lastOp' \in ContinuationOps)]_vars

\* C14 as stated: no two main-flow calls are in flight at the same time,
\* and only the preview-image generation may be in flight together with
\* one of them.
C14_OnlyImageOverlaps ==
    /\ OneMainCallAtATime
    /\ [](MainCallInFlight => ~downloadCall)

\* C14, amended: no two main-flow calls are in flight at the same time;
\* the preview-image generation and the document export of the search
\* variant may be in flight together with one of them, and they occur in
\* the search variant only.
C14_ImageAndExportOverlap ==
    /\ OneMainCallAtATime
    /\ []((downloadCall \/ imageCalls # EmptyBag) => variant = "search")

\* a text extraction is awaited while an export and a preview-image
\* request of the previous session are still in flight
C14_Witness ==
    /\ call.kind = "extractTextFromPDF"
    /\ downloadCall
    /\ imageCalls # EmptyBag

\* after a failed step the view shows a control that starts the step again
RetryExposed ==
    /\ lastOp = "processFile:failed" =>
         ENABLED (\E f \in Files :
                     handleFileUpload(f) /\ call'.kind = "extractTextFromPDF")
    /\ (lastOp = "search:failed" /\ variant = "search") =>
         ENABLED (handleStartSearchSearch /\ call'.kind = "performMarketSearch")
    /\ (lastOp = "generate:failed" /\ variant = "search") =>
         ENABLED (handleGenerateSchemes /\ call'.kind = "generateAndScoreSchemes")
    /\ (lastOp = "generate:failed" /\ variant = "simulated") =>
         ENABLED (handleStartSearchSimulated /\ call'.kind = "timer1")

\* the views that only show a loader
Loading == state \in {"ANALYZING_DOC", "SEARCHING"}

\* C15: when every dispatched call eventually resolves or rejects, the
\* session never stays in a loading state forever: again and again it is
\* in a view that is not a loader, it leaves ANALYZING_DOC only for
\* CONFIRM_REQUIREMENTS or UPLOAD and SEARCHING only for
\* VIEW_SEARCH_RESULTS, COMPARING or CONFIRM_REQUIREMENTS, and the view
\* reached after a failure exposes a user action that starts the failed
\* step again.
C15_LoadingStatesEnd ==
    /\ []<>(~Loading)
    /\ [][(state = "ANALYZING_DOC" /\ state' # state) =>
             state' \in {"CONFIRM_REQUIREMENTS", "UPLOAD"}]_vars
    /\ [][(state = "SEARCHING" /\ state' # state) =>
             state' \in {"VIEW_SEARCH_RESULTS", "COMPARING", "CONFIRM_REQUIREMENTS"}]_vars
    /\ []RetryExposed

\* a generation failed in the search variant: the search-result view is
\* shown again, with the search result its Generate control needs
C15_Witness ==
    /\ lastOp = "generate:failed"
    /\ variant = "search"
    /\ state = "VIEW_SEARCH_RESULTS"
    /\ searchResult # Null
    /\ error # Null

\* C16: in the search variant the step from COMPARING to RESULT sets the
\* view state to RESULT at once and requests a preview image exactly when
\* no image is stored at that moment; the request is for the recommended
\* scheme, and the later completion or failure of a request never changes
\* the view state.
C16_ViewBestRequestsPreviewIffNone ==
    /\ [][(variant = "search" /\ state = "COMPARING" /\ state' # state) =>
            /\ state' = "RESULT"
            /\ generatedImage' = generatedImage
            /\ IF generatedImage = Null
               THEN /\ imageCalls' = imageCalls (+) SetToBag({[scheme |-> bestScheme]})
                    /\ bestScheme # Null
                    /\ isGeneratingImage'
               ELSE /\ imageCalls' = imageCalls
                    /\ isGeneratingImage' = isGeneratingImage]_vars
    /\ [][BagCardinality(imageCalls') < BagCardinality(imageCalls) =>
            (state' = state /\ lastOp' \in {"image:ok", "image:failed"})]_vars

\* RESULT was entered with an image already stored (a request of the
\* previous session resolved late): no new request was made
C16_Witness ==
    /\ variant = "search"
    /\ lastOp = "viewBest"
    /\ state = "RESULT"
    /\ generatedImage # Null
    /\ imageCalls = EmptyBag

\* the completions that handled a failure of an external call
FailedCallOps ==
    {"processFile:failed", "search:failed", "generate:failed",
     "image:failed", "download:failed"}

\* C17: every failure of an external call (text extraction, requirement
\* extraction, market search, scheme generation, preview-image generation,
\* document export) is reported: immediately after the failure is handled,
\* error is non-null.
C17_EveryFailureReported == lastOp \in FailedCallOps => error # Null

\* what handleDownloadPDF must leave alone
ExportFrame ==
    <<state, requirements, schemes, bestScheme, searchResult, generatedImage>>

\* C18: in the search variant handleDownloadPDF, started from RESULT, never
\* changes the view state, requirements, schemes, bestScheme, searchResult
\* or generatedImage, neither when it starts nor when the export settles;
\* when document generation throws or the report element is missing, error
\* becomes non-null; and isDownloading is false once the attempt has
\* finished, whether it succeeded or failed.
C18_ExportFrame ==
    /\ [][(variant = "search" /\ lastOp' = "download:start") =>
            /\ state = "RESULT"
            /\ ExportFrame' = ExportFrame
            /\ \/ downloadCall' /\ isDownloading' /\ ~downloadCall
               \/ ~downloadCall' /\ error' # Null /\ isDownloading' = isDownloading]_vars
    /\ [][(variant = "search" /\ downloadCall /\ ~downloadCall') =>
            /\ ExportFrame' = ExportFrame
            /\ lastOp' \in {"download:ok", "download:failed"}
            /\ ~isDownloading'
            /\ lastOp' = "download:failed" => error' # Null
            /\ lastOp' = "download:ok" => error' = error]_vars
    /\ []((variant = "search" /\ ~downloadCall) => ~isDownloading)

\* the export failed while the report was on screen
C18_Witness ==
    /\ variant = "search"
    /\ lastOp = "download:failed"
    /\ state = "RESULT"
    /\ error = Str("PDF generation failed. Please try again.")
    /\ ~isDownloading

\* the calls and timers of the search and generation steps
SearchStepKinds == {"performMarketSearch", "timer1", "timer2", "generateAndScoreSchemes"}

\* C19: the step from CONFIRM_REQUIREMENTS to SEARCHING is taken only with
\* a non-empty requirement list: no market search or scheme generation is
\* ever dispatched with an empty requirement list.
C19_NoSearchOnEmptyRequirements ==
    call.kind \in SearchStepKinds => call.requirements # <<>>

\* C20: the weighted score is derived, not supplied: two response schemes
\* with the same five sub-scores that differ in any other field, a
\* weightedScore of the response's own included, get the same weightedScore
\* attached.
C20_ScoreDerivedNotSupplied ==
    ws # NoScore =>
        \A other \in OtherFields :
            generateAndScoreSchemes(<<ResponseScheme(sub, other)>>)[1].weightedScore = ws

\* a scheme whose response carried 9.99 was given the score of its
\* sub-scores
C20_Witness ==
    /\ sub = [match |-> 8, trend |-> 8, market |-> 8, innovation |-> 8, harmony |-> 8]
    /\ "weightedScore" \in DOMAIN extra
    /\ extra.weightedScore = <<"9", ".", "9", "9">>
    /\ ws = <<"8", ".", "0", "0">>

\* C21: in both export strategies the file name is the customer name with
\* every run of whitespace replaced, combined with a fixed constant part:
\* it carries no raw whitespace from the name.
C21_FileNameWithoutWhitespace ==
    savedAs # Null =>
        /\ \A i \in 1..Len(savedAs.name) : savedAs.name[i] \notin Whitespace
        /\ savedAs.name = fileNameNormalized(variant, docName)

\* C22: document analysis is all-or-nothing.  From the selection of the
\* file on, customerName, requirements, searchResult, schemes and
\* bestScheme stay as they were until requirement extraction has succeeded;
\* that step writes customerName and requirements together and is the only
\* one that shows CONFIRM_REQUIREMENTS; a failure of either call changes
\* none of the five and returns to UPLOAD.
C22_AnalysisAllOrNothing ==
    /\ [][(state = "UPLOAD" /\ state' = "ANALYZING_DOC") =>
            ConfirmedData' = ConfirmedData]_vars
    /\ [][(state = "ANALYZING_DOC" /\ lastOp' # "processFile:ok") =>
            /\ ConfirmedData' = ConfirmedData
            /\ state' \in {"ANALYZING_DOC", "UPLOAD"}
            /\ state' = "UPLOAD" <=> lastOp' = "processFile:failed"]_vars
    /\ [][(state = "ANALYZING_DOC" /\ lastOp' = "processFile:ok") =>
            /\ call.kind = "extractRequirements"
            /\ state' = "CONFIRM_REQUIREMENTS"
            /\ customerName' # ""
            /\ <<searchResult, schemes, bestScheme>>' = <<searchResult, schemes, bestScheme>>]_vars

\* the analysis of a re-uploaded file failed: the name and the requirements
\* of the previous analysis are still stored
C22_Witness ==
    /\ lastOp = "processFile:failed"
    /\ state = "UPLOAD"
    /\ requirements # <<>>
    /\ customerName = "Acme"

\* C23: in the search variant at most one preview-image request is in
\* flight at any time: a trigger of generatePreviewImage while an earlier
\* request is in flight dispatches nothing.
C23_OneImageRequestInFlight == BagCardinality(imageCalls) <= 1

\* C24: in the search variant a stored preview image is always the image
\* generated for the current bestScheme, and after reset generatedImage
\* stays null until a request dispatched after that reset completes.
C24_ImageBelongsToBestScheme ==
    /\ [](  (variant = "search" /\ generatedImage # Null) =>
              /\ bestScheme # Null
              /\ generatedImage = generateVisualizationImage(bestScheme))
    /\ [][(variant = "search" /\ generatedImage = Null /\ generatedImage' # Null) =>
              bestScheme # Null]_vars

\* the cards of the comparison view that are flagged as recommended
RecommendedCards == {i \in 1..Len(schemes) : schemes[i] = bestScheme}

\* C25: whenever the view state is COMPARING or RESULT, schemes is
\* non-empty, bestScheme is non-null and is a member of the current batch,
\* so that exactly one card is flagged as recommended; an empty batch never
\* brings the session to COMPARING.
C25_BestSchemeIsInBatch ==
    state \in {"COMPARING", "RESULT"} =>
        /\ schemes # <<>>
        /\ bestScheme # Null
        /\ Cardinality(RecommendedCards) = 1

\* the comparison of a batch of two is shown, its second scheme
\* recommended, while the message of an earlier failure is still stored
C25_Witness ==
    /\ state = "COMPARING"
    /\ Len(schemes) = 2
    /\ bestScheme = schemes[2]
    /\ error # Null

\* the least n with n * P >= H
PagesNeeded(H, P) == CHOOSE n \in 1..H : n * P >= H /\ (n - 1) * P < H

\* C26: for every bitmap height H > 0 and page height P > 0 the k-th page
\* (k = 0, 1, ...) places the bitmap at vertical offset -k*P and the number
\* of pages is the least n with n*P >= H: no page is produced that shows no
\* part of the bitmap.
C26_TilingCoversExactly ==
    pages # Null =>
        LET H == sheet.imgHeight
            P == sheet.pdfHeight
            o == pages.offsets
        IN  /\ \A k \in 1..Len(o) : o[k] = -((k - 1) * P)
            /\ Len(o) = PagesNeeded(H, P)
            /\ \A k \in 1..Len(o) : o[k] + H > 0

\* the controls of the views: everything the user can do to the session
UserAction ==
    \/ renderLanding
    \/ \E f \in Files : handleFileUpload(f)
    \/ reUpload
    \/ handleStartSearchSearch
    \/ handleGenerateSchemes
    \/ handleStartSearchSimulated
    \/ viewBestScheme
    \/ generateRender
    \/ handleDownloadPDFSearch
    \/ handleDownloadPDFSimulated
    \/ reset

\* C27: in both variants the view is a loading view (ANALYZING_DOC or
\* SEARCHING) exactly when a main-flow call or the simulated search delay
\* is in flight, loadingMsg is non-empty in every such state, and no
\* control that starts a step or resets the session is available there.
C27_LoaderWhileCallInFlight ==
    /\ Loading <=> MainCallInFlight
    /\ Loading => loadingMsg # ""
    /\ Loading => ~ENABLED UserAction

\* the loader of the second simulated session is up during the search
\* delay, after a first session that ended with New Analysis
C27_Witness ==
    /\ variant = "simulated"
    /\ state = "SEARCHING"
    /\ call.kind = "timer1"
    /\ bestScheme # Null
    /\ loadingMsg = "AI Agent searching global design trends..."

\* the session's data that the search-result view and the generation work on
SearchInputs == <<requirements, searchResult>>

\* C28: in the search variant searchResult is non-null whenever the view is
\* VIEW_SEARCH_RESULTS, and it is the result of the search run on the
\* current requirement list: the view is entered only when a search has
\* just succeeded or a generation has just failed, nothing changes the
\* requirements or the result while the view or the generation's loader is
\* up, every generation call carries that result and those requirements,
\* and handleGenerateSchemes with searchResult = null changes nothing.
C28_GenerationUsesCurrentSearch ==
    /\ [](state = "VIEW_SEARCH_RESULTS" =>
            /\ variant = "search"
            /\ searchResult # Null
            /\ searchResult.query = requirements)
    /\ [](call.kind = "generateAndScoreSchemes" /\ variant = "search" =>
            /\ call.searchResult = searchResult
            /\ call.requirements = requirements
            /\ searchResult.query = requirements)
    /\ [][(state' = "VIEW_SEARCH_RESULTS" /\ state # "VIEW_SEARCH_RESULTS") =>
            lastOp' \in {"search:ok", "generate:failed"}]_vars
    /\ [][searchResult' # searchResult => lastOp' = "search:ok"]_vars
    /\ [][(state = "VIEW_SEARCH_RESULTS" \/
           call.kind = "generateAndScoreSchemes") =>
            UNCHANGED SearchInputs]_vars
    /\ [][lastOp' = "generate:ignored" =>
            UNCHANGED <<state, error, loadingMsg, call, schemes, bestScheme,
                        SearchInputs>>]_vars

\* a generation of a later session is in flight while an export of the
\* session before it is still pending: the earlier search result survived
\* the reset and has since been replaced by the result of a search on the
\* later session's requirements
C28_Witness ==
    /\ variant = "search"
    /\ call.kind = "generateAndScoreSchemes"
    /\ call.searchResult.query = <<>>
    /\ requirements = <<>>
    /\ downloadCall

\* the messages that an upload rejection or a failed document analysis
\* stores in error
UploadFlowMessages(v) ==
    {uploadRejection(v, f) : f \in Files} \cup
    {processFileError(v, msg) : msg \in ExtractTextErrors \cup ExtractReqErrors(v)}

\* C29: whenever the Upload view is shown with a non-null error, the message
\* comes from an upload-validation failure or a document-analysis failure:
\* an error raised by a later step (search, scheme generation, export) is
\* never displayed on the Upload view, in either variant, including after
\* the reset action and after Re-upload.
C29_UploadViewShowsUploadErrors ==
    (state = "UPLOAD" /\ error # Null) => error \in UploadFlowMessages(variant)

\* the steps the sidebar marks as active, and as completed
ActiveSteps == {i \in StepIndices : isActive(variant, state, i)}
CompletedSteps == {i \in StepIndices : isCompleted(variant, state, i)}
CompletedStepsNext == {i \in StepIndices : isCompleted(variant', state', i)}

\* C30: in every view state of a variant's wizard other than LANDING the
\* Layout marks exactly one step as active and every step listed before it
\* as completed; in CONFIRM_REQUIREMENTS Analyze is active and Upload is
\* completed; the set of completed steps never shrinks along a forward
\* transition.
C30_StepIndicator ==
    /\ [](sidebarShown(variant, state) =>
            /\ Cardinality(ActiveSteps) = 1
            /\ \A a \in ActiveSteps : CompletedSteps = {i \in StepIndices : i < a}
            /\ state = "CONFIRM_REQUIREMENTS" =>
                 /\ ActiveSteps = {stepsFindIndex("ANALYZING_DOC")}
                 /\ stepsFindIndex("UPLOAD") \in CompletedSteps)
    /\ [][(<<state, state'>> \in ForwardEdges /\ lastOp' \notin FailureOps
           /\ state # "LANDING") =>
            CompletedSteps \subseteq CompletedStepsNext]_vars

====
